---- MODULE Spec2Model ----
(***************************************************************************)
(* Cook_Book_API: the five request handlers of src/main.py over the two    *)
(* tables of src/app/models.py.  Every request runs in its own             *)
(* AsyncSession (src/app/database.py get_db); each `await` of a handler is *)
(* one step, so the steps of concurrent requests interleave.               *)
(*                                                                         *)
(* The store is PostgreSQL (postgresql+asyncpg, src/database.py:5; the URL  *)
(* of src/app/database.py comes from a Config module outside src/) at its  *)
(* default isolation level READ COMMITTED: a statement sees the rows       *)
(* committed when it runs, a DELETE takes the row lock of the row it       *)
(* deletes, an INSERT into ingredients takes a key-share lock on the       *)
(* referenced recipe row (the foreign key check), and a statement that     *)
(* needs a lock held by another transaction waits for that transaction.    *)
(*                                                                         *)
(* Responses go through FastAPI's response_model: the returned object is   *)
(* read attribute by attribute into the schema class, so only the schema's *)
(* fields reach the client.                                                *)
(***************************************************************************)
EXTENDS Integers, Sequences, FiniteSets, TLC

\* ---------------------------------------------------------------- bounds
NumSessions == 2
MaxRecipeId == 2
MaxIngredientId == 2
MaxSeedViews == 1

Sessions == 1..NumSessions
CookingTimes == {10, 20}
IngredientNames == {"Broth"}
IngredientLists == {"water, salt"}
RecipeIds == 1..(MaxRecipeId + 1)

None == [op |-> "None"]
NoTxn == [ins_r |-> {}, ins_g |-> {}, del_r |-> {}, del_g |-> {}]
NoResponse == [req |-> None, resp |-> None]

VARIABLES
    recipes,            \* committed rows of table `recipes`
    ingredients,        \* committed rows of table `ingredients`
    recipe_id_seq,      \* last value of the recipes.id sequence
    ingredient_id_seq,  \* last value of the ingredients.id sequence
    pc,                 \* per session: the await the handler is suspended at
    req,                \* per session: the request being served
    obj,                \* per session: the handler's local ORM object
    txn,                \* per session: the uncommitted writes of its transaction
    last,               \* the request answered in the last step, with its response
    created,            \* history: id and input of every committed create_recipe
    deleted             \* history: id and cascaded rows of every successful delete_recipe

vars == <<recipes, ingredients, recipe_id_seq, ingredient_id_seq, pc, req, obj,
          txn, last, created, deleted>>

store == <<recipes, ingredients>>
history == <<created, deleted>>
sequences == <<recipe_id_seq, ingredient_id_seq>>

\* ---------------------------------------------------------------- schema
\* models.Recipe(name=..., cooking_time=..., description=...) once flushed:
\* id from the sequence, views from the column default.
ViewsDefault == 0

\* variant: name and description passed in each other's place
NewRecipe_Swapped(recipe, id) ==
    [id |-> id, name |-> recipe.description, views |-> ViewsDefault,
     cooking_time |-> recipe.cooking_time, description |-> recipe.name]

NewRecipe(recipe, id) ==
    [id |-> id, name |-> recipe.name, views |-> ViewsDefault,
     cooking_time |-> recipe.cooking_time, description |-> recipe.description]

\* variant: the description taken from the request instead of the recipe
NewIngredient_FromCaller(ingredient, recipe, id) ==
    [id |-> id, name |-> ingredient.name,
     cooking_time |-> recipe.cooking_time,
     description |-> ingredient.name,
     list_of_ingredients |-> ingredient.list_of_ingredients,
     recipe_id |-> ingredient.recipe_id]

\* models.Ingredient(...) as built by create_ingredient, once flushed.
NewIngredient(ingredient, recipe, id) ==
    [id |-> id, name |-> ingredient.name,
     cooking_time |-> recipe.cooking_time,
     description |-> recipe.description,
     list_of_ingredients |-> ingredient.list_of_ingredients,
     recipe_id |-> ingredient.recipe_id]

\* select(models.Recipe).filter_by(id=recipe_id) ... .scalars().first()
First(rows) == IF rows = {} THEN None ELSE CHOOSE r \in rows : TRUE

SelectRecipeById(tbl, id) == First({r \in tbl : r.id = id})

\* variant: a foreign key without ondelete='CASCADE' semantics
CascadeRows_None(tbl, id) == {}

\* ForeignKey('recipes.id', ondelete='CASCADE'): the rows removed with a recipe
CascadeRows(tbl, id) == {g \in tbl : g.recipe_id = id}

\* variant: recipe_id as a plain integer column, no foreign key
ForeignKeyHolds_Unchecked(tbl, id) == TRUE

\* ForeignKey('recipes.id'): the referenced row must exist when the row is inserted
ForeignKeyHolds(tbl, id) == \E r \in tbl : r.id = id

\* variant: the DELETE without its WHERE clause
DeleteTargets_All(tbl, id) == tbl

\* delete(models.Recipe).where(models.Recipe.id == recipe_id)
DeleteTargets(tbl, id) == {r \in tbl : r.id = id}

\* ---------------------------------------------------------------- schemas
\* response_model=schemas.RecipeCreate
RecipeCreate(o) ==
    [name |-> o.name, cooking_time |-> o.cooking_time, description |-> o.description]

\* response_model=schemas.IngredientCreate
IngredientCreate(o) ==
    [name |-> o.name, list_of_ingredients |-> o.list_of_ingredients,
     recipe_id |-> o.recipe_id]

\* response_model=schemas.RecipeDelete over the returned dict
RecipeDelete(id) == [message |-> <<"Recipe with id", id, "was successfully deleted.">>]

OK(body) == [status |-> 200, body |-> body]
NotFound == [status |-> 404, body |-> [detail |-> "Recipe not found"]]
ServerError == [status |-> 500, body |-> None]

\* ---------------------------------------------------------------- ORDER BY
\* variant: order_by(Recipe.views.desc()) alone
Precedes_ViewsOnly(a, b) == a.views > b.views

\* order_by(Recipe.views.desc(), Recipe.cooking_time.asc())
Precedes(a, b) ==
    \/ a.views > b.views
    \/ a.views = b.views /\ a.cooking_time < b.cooking_time

RECURSIVE Insert(_, _)
Insert(x, sorted) ==
    IF sorted = <<>> THEN <<x>>
    ELSE IF Precedes(x, Head(sorted)) THEN <<x>> \o sorted
    ELSE <<Head(sorted)>> \o Insert(x, Tail(sorted))

RECURSIVE OrderBy(_)
OrderBy(rows) ==
    IF rows = <<>> THEN <<>>
    ELSE Insert(rows[Len(rows)], OrderBy(SubSeq(rows, 1, Len(rows) - 1)))

\* the orders in which a scan may produce the rows of a table
Scans(tbl) ==
    {f \in [1..Cardinality(tbl) -> tbl] :
        \A i, j \in 1..Cardinality(tbl) : i # j => f[i] # f[j]}

\* ---------------------------------------------------------------- locks
RowLocked(s, id) == \E r \in txn[s].del_r : r.id = id
KeyShared(s, id) == \E g \in txn[s].ins_g : g.recipe_id = id

\* ---------------------------------------------------------------- sessions
Idle(s) == pc[s] = "idle"

\* the response leaves and get_db closes the session, which ends its transaction
Finish(s, request, response) ==
    /\ pc' = [pc EXCEPT ![s] = "idle"]
    /\ req' = [req EXCEPT ![s] = None]
    /\ obj' = [obj EXCEPT ![s] = None]
    /\ txn' = [txn EXCEPT ![s] = NoTxn]
    /\ last' = [req |-> request, resp |-> response]

\* the handler is suspended at its next await
Await(s, request, label) ==
    /\ pc' = [pc EXCEPT ![s] = label]
    /\ req' = [req EXCEPT ![s] = request]
    /\ last' = NoResponse

\* GET /recipes
Recipes(s) ==
    /\ Idle(s)
    /\ \E scan \in Scans(recipes) :
          Finish(s, [op |-> "recipes"], OK(OrderBy(scan)))
    /\ UNCHANGED <<store, sequences, history>>

\* GET /recipes/{recipe_id}
GetRecipe(s) ==
    /\ Idle(s)
    /\ \E recipe_id \in RecipeIds :
          LET recipe == SelectRecipeById(recipes, recipe_id)
              request == [op |-> "recipe", recipe_id |-> recipe_id] IN
          IF recipe = None
          THEN Finish(s, request, NotFound)
          ELSE Finish(s, request, OK(recipe))
    /\ UNCHANGED <<store, sequences, history>>

RecipeInputs ==
    {[name |-> "Soup", cooking_time |-> 20, description |-> "Hot soup"],
     [name |-> "Tea", cooking_time |-> 10, description |-> "Cold"]}

IngredientInputs ==
    [name : IngredientNames, list_of_ingredients : IngredientLists, recipe_id : RecipeIds]

\* variant: the lookup without filter_by(id=...)
CreateIngredientLookup_NoFilter(tbl, recipe_id) == First(tbl)

DeleteRecipeLookup_NoFilter(tbl, recipe_id) == First(tbl)

\* the recipe looked up by each handler that needs one
CreateIngredientLookup(tbl, recipe_id) == SelectRecipeById(tbl, recipe_id)

DeleteRecipeLookup(tbl, recipe_id) == SelectRecipeById(tbl, recipe_id)

\* POST /recipes: db.add(db_recipe); commit() first flushes the INSERT
CreateRecipeFlush(s) ==
    /\ Idle(s)
    /\ recipe_id_seq < MaxRecipeId
    /\ \E recipe \in RecipeInputs :
          LET db_recipe == NewRecipe(recipe, recipe_id_seq + 1) IN
          /\ recipe_id_seq' = recipe_id_seq + 1
          /\ txn' = [txn EXCEPT ![s].ins_r = {db_recipe}]
          /\ obj' = [obj EXCEPT ![s] = db_recipe]
          /\ Await(s, [op |-> "create_recipe", recipe |-> recipe], "cr_commit")
    /\ UNCHANGED <<store, ingredient_id_seq, history>>

\* ... then commits
CreateRecipeCommit(s) ==
    /\ pc[s] = "cr_commit"
    /\ recipes' = recipes \cup txn[s].ins_r
    /\ created' = created \cup {[id |-> obj[s].id, recipe |-> req[s].recipe]}
    /\ txn' = [txn EXCEPT ![s] = NoTxn]
    /\ Await(s, req[s], "cr_refresh")
    /\ UNCHANGED <<ingredients, sequences, obj, deleted>>

\* db.refresh(db_recipe); return db_recipe
CreateRecipeRefresh(s) ==
    /\ pc[s] = "cr_refresh"
    /\ LET row == SelectRecipeById(recipes, obj[s].id) IN
          IF row = None THEN Finish(s, req[s], ServerError)
          ELSE Finish(s, req[s], OK(RecipeCreate(row)))
    /\ UNCHANGED <<store, sequences, history>>

\* POST /ingredients: the lookup of the recipe
CreateIngredientSelect(s) ==
    /\ Idle(s)
    /\ ingredient_id_seq
         + Cardinality({t \in Sessions : pc[t] = "ci_flush"}) < MaxIngredientId
    /\ \E ingredient \in IngredientInputs :
          LET recipe == CreateIngredientLookup(recipes, ingredient.recipe_id)
              request == [op |-> "create_ingredient", ingredient |-> ingredient] IN
          IF recipe = None
          THEN Finish(s, request, NotFound)
          ELSE /\ obj' = [obj EXCEPT ![s] = recipe]
               /\ Await(s, request, "ci_flush")
               /\ UNCHANGED txn
    /\ UNCHANGED <<store, sequences, history>>

\* db.add(db_ingredient); commit() first flushes the INSERT, which checks the
\* foreign key against the committed recipes (waiting for a DELETE in progress)
CreateIngredientFlush(s) ==
    /\ pc[s] = "ci_flush"
    /\ \A t \in Sessions \ {s} : ~RowLocked(t, req[s].ingredient.recipe_id)
    /\ ingredient_id_seq' = ingredient_id_seq + 1
    /\ LET db_ingredient ==
              NewIngredient(req[s].ingredient, obj[s], ingredient_id_seq + 1) IN
          IF ForeignKeyHolds(recipes, db_ingredient.recipe_id)
          THEN /\ txn' = [txn EXCEPT ![s].ins_g = {db_ingredient}]
               /\ obj' = [obj EXCEPT ![s] = db_ingredient]
               /\ Await(s, req[s], "ci_commit")
          ELSE Finish(s, req[s], ServerError)
    /\ UNCHANGED <<store, recipe_id_seq, history>>

CreateIngredientCommit(s) ==
    /\ pc[s] = "ci_commit"
    /\ ingredients' = ingredients \cup txn[s].ins_g
    /\ txn' = [txn EXCEPT ![s] = NoTxn]
    /\ Await(s, req[s], "ci_refresh")
    /\ UNCHANGED <<recipes, sequences, obj, history>>

\* db.refresh(db_ingredient); return db_ingredient
CreateIngredientRefresh(s) ==
    /\ pc[s] = "ci_refresh"
    /\ LET row == First({g \in ingredients : g.id = obj[s].id}) IN
          IF row = None THEN Finish(s, req[s], ServerError)
          ELSE Finish(s, req[s], OK(IngredientCreate(row)))
    /\ UNCHANGED <<store, sequences, history>>

\* DELETE /delete_recipe{recipe_id}: the lookup of the recipe
DeleteRecipeSelect(s) ==
    /\ Idle(s)
    /\ \E recipe_id \in RecipeIds :
          LET recipe == DeleteRecipeLookup(recipes, recipe_id)
              request == [op |-> "delete_recipe", recipe_id |-> recipe_id] IN
          IF recipe = None
          THEN Finish(s, request, NotFound)
          ELSE /\ Await(s, request, "dr_delete")
               /\ UNCHANGED <<obj, txn>>
    /\ UNCHANGED <<store, sequences, history>>

\* the DELETE statement: it waits for the locks other transactions hold on the
\* row, then deletes what is committed by then, with the rows the key cascades to
DeleteRecipeExecute(s) ==
    /\ pc[s] = "dr_delete"
    /\ \A t \in Sessions \ {s} :
          /\ ~RowLocked(t, req[s].recipe_id)
          /\ ~KeyShared(t, req[s].recipe_id)
    /\ LET targets == DeleteTargets(recipes, req[s].recipe_id) IN
          txn' = [txn EXCEPT ![s].del_r = targets,
                             ![s].del_g = UNION {CascadeRows(ingredients, r.id) :
                                                    r \in targets}]
    /\ Await(s, req[s], "dr_commit")
    /\ UNCHANGED <<store, sequences, obj, history>>

\* db.commit(); return {"message": ...}
DeleteRecipeCommit(s) ==
    /\ pc[s] = "dr_commit"
    /\ recipes' = recipes \ txn[s].del_r
    /\ ingredients' = ingredients \ txn[s].del_g
    /\ deleted' = deleted \cup {[id |-> req[s].recipe_id,
                                 n |-> Cardinality(txn[s].del_g)]}
    /\ Finish(s, req[s], OK(RecipeDelete(req[s].recipe_id)))
    /\ UNCHANGED <<sequences, created>>

\* ---------------------------------------------------------------- specification
Quiet ==
    /\ recipe_id_seq = Cardinality(recipes)
    /\ ingredients = {}
    /\ ingredient_id_seq = 0
    /\ pc = [s \in Sessions |-> "idle"]
    /\ req = [s \in Sessions |-> None]
    /\ obj = [s \in Sessions |-> None]
    /\ txn = [s \in Sessions |-> NoTxn]
    /\ last = NoResponse
    /\ created = {}
    /\ deleted = {}

\* startup(): create_all on an empty database
Init ==
    /\ recipes = {}
    /\ Quiet

\* startup() on a database that already holds recipes, whose views some client
\* outside this program has counted
SeedRows(id) ==
    {[id |-> id, name |-> "Soup", views |-> v, cooking_time |-> c,
      description |-> "Hot soup"] : v \in 0..MaxSeedViews, c \in CookingTimes}

InitSeeded ==
    /\ \E k \in 0..MaxRecipeId :
          \E f \in [1..k -> UNION {SeedRows(i) : i \in 1..k}] :
              /\ \A i \in 1..k : f[i].id = i
              /\ recipes = {f[i] : i \in 1..k}
    /\ Quiet

Next ==
    \E s \in Sessions :
        \/ Recipes(s)
        \/ GetRecipe(s)
        \/ CreateRecipeFlush(s)
        \/ CreateRecipeCommit(s)
        \/ CreateRecipeRefresh(s)
        \/ CreateIngredientSelect(s)
        \/ CreateIngredientFlush(s)
        \/ CreateIngredientCommit(s)
        \/ CreateIngredientRefresh(s)
        \/ DeleteRecipeSelect(s)
        \/ DeleteRecipeExecute(s)
        \/ DeleteRecipeCommit(s)

Spec == Init /\ [][Next]_vars

SpecSeeded == InitSeeded /\ [][Next]_vars

\* ---------------------------------------------------------------- properties
Ids(tbl) == {r.id : r \in tbl}

\* the step just taken answered a request of handler op
Answered(op) == last.req.op = op

\* this step answers a request of handler op
Answers(op) == last' # NoResponse /\ last'.req.op = op

\* ... a request that arrived in this very step
AnswersAtOnce(op) == Answers(op) /\ pc' = pc

\* session s takes the first step of handler op and is suspended
Begins(s, op) == pc[s] = "idle" /\ pc'[s] # "idle" /\ req'[s].op = op

\* session s commits the transaction of its delete_recipe
DeleteCommits(s) == pc[s] = "dr_commit" /\ pc'[s] = "idle"

\* C1: once delete_recipe(id) has returned success, the committed store holds
\* no recipe with that id and no ingredient whose recipe_id is that id, and a
\* get_recipe(id) issued afterwards answers 404.
C1_DeleteRemovesRecipeAndIngredients ==
    [][/\ \A d \in deleted' :
             /\ d.id \notin Ids(recipes')
             /\ \A g \in ingredients' : g.recipe_id # d.id
       /\ Answers("recipe") /\ last'.req.recipe_id \in Ids(deleted)
             => last'.resp = NotFound]_vars

C1_Witness ==
    /\ Answered("recipe") /\ last.resp = NotFound
    /\ \E d \in deleted : d.id = last.req.recipe_id /\ d.n >= 2

\* C2: a delete_recipe returns the success confirmation only for an id for
\* which no delete_recipe has returned it before: of two requests for the same
\* recipe never both succeed.
C2_OneDeleteSucceeds ==
    [][\A s \in Sessions :
          DeleteCommits(s) => req[s].recipe_id \notin Ids(deleted)]_vars

\* C3: create_ingredient for a recipe_id with no recipe at lookup time answers
\* 404 at once and writes nothing: it goes on to the INSERT only with a recipe
\* found, and its immediate answer leaves tables, sequences and transactions
\* as they were.
C3_CreateIngredientNotFound ==
    [][/\ \A s \in Sessions :
             Begins(s, "create_ingredient")
                 => req'[s].ingredient.recipe_id \in Ids(recipes)
       /\ AnswersAtOnce("create_ingredient")
             => /\ last'.req.ingredient.recipe_id \notin Ids(recipes)
                /\ last'.resp = NotFound
                /\ UNCHANGED <<store, sequences, txn, history>>]_vars

C3_Witness ==
    /\ Answered("create_ingredient") /\ last.resp = NotFound
    /\ recipes # {} /\ ingredients # {}

\* C4: delete_recipe for an id with no recipe answers 404 at once and leaves
\* every recipe row and every ingredient row as it was.
C4_DeleteNotFound ==
    [][/\ \A s \in Sessions :
             Begins(s, "delete_recipe") => req'[s].recipe_id \in Ids(recipes)
       /\ AnswersAtOnce("delete_recipe")
             => /\ last'.req.recipe_id \notin Ids(recipes)
                /\ last'.resp = NotFound
                /\ UNCHANGED <<store, sequences, txn, history>>]_vars

C4_Witness ==
    /\ Answered("delete_recipe") /\ last.resp = NotFound
    /\ recipes # {} /\ ingredients # {}

\* C5: the ingredient row a create_ingredient commits has the caller's name,
\* list_of_ingredients and recipe_id, and the cooking_time and description of
\* the recipe that was created under that recipe_id.
C5_IngredientCopiesRecipe ==
    [][\A s \in Sessions :
          pc[s] = "ci_commit" /\ pc'[s] = "ci_refresh"
              => \E g \in ingredients' :
                    /\ ingredients' \ ingredients = {g}
                    /\ g.name = req[s].ingredient.name
                    /\ g.list_of_ingredients = req[s].ingredient.list_of_ingredients
                    /\ g.recipe_id = req[s].ingredient.recipe_id
                    /\ \E c \in created :
                          /\ c.id = g.recipe_id
                          /\ g.cooking_time = c.recipe.cooking_time
                          /\ g.description = c.recipe.description]_vars

C5_Witness ==
    \E s \in Sessions :
        /\ pc[s] = "ci_refresh"
        /\ \E g \in ingredients : g.id = obj[s].id /\ g.description = "Hot soup"

\* C6: list_recipes returns every stored recipe exactly once, ordered by views
\* descending and, among equal views, by cooking_time ascending.
C6_ListSorted ==
    [][Answers("recipes")
          => LET res == last'.resp.body IN
             /\ last'.resp.status = 200
             /\ Len(res) = Cardinality(recipes)
             /\ {res[i] : i \in 1..Len(res)} = recipes
             /\ \A i, j \in 1..Len(res) :
                   i < j =>
                      /\ res[i].views >= res[j].views
                      /\ res[i].views = res[j].views
                            => res[i].cooking_time <= res[j].cooking_time]_vars

C6_Witness ==
    /\ Answered("recipes")
    /\ Len(last.resp.body) = 2
    /\ last.resp.body[1].views > last.resp.body[2].views
    /\ last.resp.body[1].cooking_time > last.resp.body[2].cooking_time

\* C7: a created recipe that no delete_recipe has removed is stored, and
\* returned by get_recipe, with its generated id, views = 0 and the name,
\* cooking_time and description that were supplied.
C7_CreateThenGet ==
    [][\A c \in created' :
          c.id \notin Ids(deleted') =>
             LET row == [id |-> c.id, name |-> c.recipe.name, views |-> 0,
                         cooking_time |-> c.recipe.cooking_time,
                         description |-> c.recipe.description] IN
             /\ row \in recipes'
             /\ Answers("recipe") /\ last'.req.recipe_id = c.id
                   => last'.resp = OK(row)]_vars

C7_Witness ==
    /\ Answered("recipe") /\ last.resp.status = 200
    /\ last.resp.body.id = 2 /\ last.resp.body.name = "Tea"
    /\ 1 \in Ids(deleted)
    /\ ingredients # {}

\* C8: the successful response of create_recipe carries the created recipe
\* with its generated id and views, and that of create_ingredient the created
\* ingredient with its generated id and the copied cooking_time and description.
C8_CreateReturnsEntity ==
    /\ Answered("create_recipe") /\ last.resp.status = 200
          => {"id", "views"} \subseteq DOMAIN last.resp.body
    /\ Answered("create_ingredient") /\ last.resp.status = 200
          => {"id", "cooking_time", "description"} \subseteq DOMAIN last.resp.body

\* C9: every committed ingredient references a committed recipe, and a request
\* that has ended holds no uncommitted write.
C9_NoOrphanIngredient ==
    /\ \A g \in ingredients : g.recipe_id \in Ids(recipes)
    /\ \A s \in Sessions : pc[s] = "idle" => txn[s] = NoTxn

\* the recipe was there at lookup, its deletion committed before the INSERT,
\* and the create_ingredient failed without ever writing a row
C9_Witness ==
    /\ Answered("create_ingredient") /\ last.resp = ServerError
    /\ last.req.ingredient.recipe_id \in Ids(deleted)
    /\ \A d \in deleted : d.n = 0
    /\ ingredients = {}

\* C10: a recipe row leaves the store only when a delete_recipe of its id
\* commits, and an ingredient row only when a delete_recipe of its recipe_id
\* commits; no step changes a row that stays.
C10_OnlyDeleteRemoves ==
    [][/\ \A r \in recipes \ recipes' :
             \E s \in Sessions : DeleteCommits(s) /\ req[s].recipe_id = r.id
       /\ \A g \in ingredients \ ingredients' :
             /\ \E s \in Sessions : DeleteCommits(s) /\ req[s].recipe_id = g.recipe_id
             /\ g.recipe_id \in Ids(recipes) \ Ids(recipes')
       /\ \A r \in recipes' \ recipes : r.id \notin Ids(recipes)
       /\ \A g \in ingredients' \ ingredients : g.id \notin Ids(ingredients)]_vars

C10_Witness ==
    /\ Answered("delete_recipe") /\ last.resp.status = 200
    /\ \E d \in deleted : d.id = last.req.recipe_id /\ d.n >= 1
    /\ \E r \in recipes : r.id # last.req.recipe_id
    /\ \E g \in ingredients : g.recipe_id # last.req.recipe_id
====
